---- MODULE Spec2Model ----
(***************************************************************************)
(* Feature engine of match-predictor (src/data/process.py): process_data   *)
(* and calculate_rolling_features, as a state machine over the data frames *)
(* the batch run builds one after the other.                               *)
(*                                                                         *)
(* Conventions.  A data frame is a sequence of records (its rows, in row   *)
(* order); every row keeps the index label `idx' pandas gives it at        *)
(* read_csv and carries through filters, renames and concat.  A text is a  *)
(* sequence of one-character strings; the empty text <<>> is the blank CSV *)
(* field, which read_csv loads as NaN.  A float that may be NaN is an      *)
(* integer or NaN; a rolling mean is the exact fraction <<sum, count>> of  *)
(* its window (pandas' float rounding is not modelled) and <<0, 0>> is the *)
(* NaN mean.  sort_values('date') is modelled as the stable sort.          *)
(***************************************************************************)
EXTENDS Integers, Sequences, FiniteSets, TLC

VARIABLES
    pc,             \* position of process_data in its sequence of steps
    window_size,    \* window_size of calculate_rolling_features
    raw,            \* the input file as loaded by read_csv
    df,             \* df after section 1 (score filter, goals, result)
    team_stats_df,  \* team_stats_df after section 2 (team view, points)
    processed_df,   \* processed_df after section 3 (rolling features)
    merged_df,      \* final_df after the two merges of section 4
    final_df        \* final_df after dropna, as written by to_csv

vars == <<pc, window_size, raw, df, team_stats_df, processed_df, merged_df, final_df>>

---------------------------------------------------------------------------
(* Bounds of the model *)

MaxMatches == 3     \* rows of the input file under Spec
MaxScoreRows == 2   \* rows of the input file under SpecScore
MaxScoreLen == 3    \* characters of a score text under SpecParse

(* Program constants *)

DefaultWindow == 5  \* window_size: int = 5

NaN == -1           \* numpy NaN in a numeric column (goals are never negative)
NaNText == "NaN"    \* NaN in an object column (result, attendance)
NaNMean == <<0, 0>> \* NaN in a rolling-mean column

Teams == {"A", "B"}
TeamOrder == <<"A", "B">>      \* groupby('team') iterates the sorted keys

Sep == "-"                     \* stands for the en dash U+2013 of line 33
Digits == {"0", "1", "2"}
Chars == Digits \cup {Sep, "x"}

---------------------------------------------------------------------------
(* Generic sequence helpers *)

RECURSIVE SumSeq(_)
SumSeq(s) == IF s = <<>> THEN 0 ELSE Head(s) + SumSeq(Tail(s))

RECURSIVE Concat(_)
Concat(ss) == IF ss = <<>> THEN <<>> ELSE Head(ss) \o Concat(Tail(ss))

Map(s, F(_)) == [i \in 1..Len(s) |-> F(s[i])]

RECURSIVE SeqsUpTo(_, _)
SeqsUpTo(S, n) ==
    IF n = 0 THEN {<<>>}
    ELSE LET shorter == SeqsUpTo(S, n - 1)
         IN  shorter \cup {Append(s, c) : s \in {t \in shorter : Len(t) = n - 1}, c \in S}

---------------------------------------------------------------------------
(* Section 1: cleaning and target derivation (lines 24-41) *)

\* df[df['score'].notna()]
NotNaScore(rows) == SelectSeq(rows, LAMBDA r : r.score # <<>>)

\* str.split(Sep) of one text: the tokens between the separators
RECURSIVE Split(_)
Split(s) ==
    IF \A i \in 1..Len(s) : s[i] # Sep THEN <<s>>
    ELSE LET i == CHOOSE i \in 1..Len(s) : s[i] = Sep /\ \A j \in 1..(i - 1) : s[j] # Sep
         IN  <<SubSeq(s, 1, i - 1)>> \o Split(SubSeq(s, i + 1, Len(s)))

\* number of columns of str.split(expand=True): the longest token list
SplitWidth(rows) ==
    LET lens == {Len(Split(rows[i].score)) : i \in 1..Len(rows)}
    IN  IF lens = {} THEN 0 ELSE CHOOSE n \in lens : \A m \in lens : m <= n

DigitVal(c) == CASE c = "0" -> 0 [] c = "1" -> 1 [] c = "2" -> 2

RECURSIVE DecVal(_)
DecVal(t) == IF t = <<>> THEN 0
             ELSE 10 * DecVal(SubSeq(t, 1, Len(t) - 1)) + DigitVal(t[Len(t)])

\* a token pd.to_numeric converts: the empty string (to NaN) or a digit string
Numeric(t) == \A i \in 1..Len(t) : t[i] \in Digits

\* pd.to_numeric of a token that converts
ToNumeric(t) == IF t = <<>> THEN NaN ELSE DecVal(t)

\* pd.to_numeric(score_split[j]) for one row: None (a row with fewer tokens)
\* and the empty string become NaN
GoalColumn(score, j) ==
    LET toks == Split(score)
    IN  IF j > Len(toks) THEN NaN ELSE ToNumeric(toks[j])

\* lines 33-35 raise: .str on an empty frame / score_split[1] missing
\* (KeyError) / a token that is not numeric (ValueError)
CleanRaises(rows) ==
    \/ rows = <<>>
    \/ SplitWidth(rows) < 2
    \/ \E i \in 1..Len(rows) : \E j \in 1..2 :
          LET toks == Split(rows[i].score)
          IN  j <= Len(toks) /\ ~Numeric(toks[j])

\* comparisons of float columns: False whenever an operand is NaN
Gt(a, b) == a # NaN /\ b # NaN /\ a > b
Eq(a, b) == a # NaN /\ b # NaN /\ a = b
Lt(a, b) == a # NaN /\ b # NaN /\ a < b

\* a slip: the first mask written with >=, so that a draw is first marked "H"
\* and the "D" mask is skipped
ResultDrawAsHome(hg, ag) ==
    LET r1 == IF Gt(hg, ag) \/ Eq(hg, ag) THEN "H" ELSE NaNText
    IN  IF Lt(hg, ag) THEN "A" ELSE r1

\* lines 39-41: the three masked assignments, in order
Result(hg, ag) ==
    LET r1 == IF Gt(hg, ag) THEN "H" ELSE NaNText
        r2 == IF Eq(hg, ag) THEN "D" ELSE r1
    IN  IF Lt(hg, ag) THEN "A" ELSE r2

ScoredRow(r) ==
    LET hg == GoalColumn(r.score, 1)
        ag == GoalColumn(r.score, 2)
    IN  [idx |-> r.idx, date |-> r.date, home_team |-> r.home_team,
         away_team |-> r.away_team, score |-> r.score, attendance |-> r.attendance,
         home_goals |-> hg, away_goals |-> ag, result |-> Result(hg, ag)]

CleanDf(rows) == Map(NotNaScore(rows), ScoredRow)

---------------------------------------------------------------------------
(* Section 2: team view and points (lines 45-73) *)

HomeView(m) ==
    [idx |-> m.idx, date |-> m.date, team |-> m.home_team,
     goals_scored |-> m.home_goals, goals_conceded |-> m.away_goals,
     result |-> m.result, location |-> "H"]

\* a slip: the away view built like the home view, goals not swapped
AwayViewUnswapped(m) ==
    [idx |-> m.idx, date |-> m.date, team |-> m.away_team,
     goals_scored |-> m.home_goals, goals_conceded |-> m.away_goals,
     result |-> m.result, location |-> "A"]

AwayView(m) ==
    [idx |-> m.idx, date |-> m.date, team |-> m.away_team,
     goals_scored |-> m.away_goals, goals_conceded |-> m.home_goals,
     result |-> m.result, location |-> "A"]

\* sort_values('date'): rows by ascending date, ties in their given order
RECURSIVE SortByDate(_)
SortByDate(rows) ==
    IF rows = <<>> THEN <<>>
    ELSE LET i == CHOOSE i \in 1..Len(rows) :
                     /\ \A j \in 1..Len(rows) : rows[i].date <= rows[j].date
                     /\ \A j \in 1..(i - 1) : rows[j].date # rows[i].date
         IN  <<rows[i]>> \o SortByDate(SubSeq(rows, 1, i - 1) \o SubSeq(rows, i + 1, Len(rows)))

\* a slip: the points decided per match, not per record (the home side's
\* points given to both records)
PointsPerMatch(rec) ==
    IF rec.result = "H" THEN 3
    ELSE IF rec.result = "D" THEN 1
    ELSE 0

\* np.select(conditions, [3, 3, 1], default=0) for one row
Points(rec) ==
    IF rec.location = "H" /\ rec.result = "H" THEN 3
    ELSE IF rec.location = "A" /\ rec.result = "A" THEN 3
    ELSE IF rec.result = "D" THEN 1
    ELSE 0

WithPoints(rec) ==
    [idx |-> rec.idx, date |-> rec.date, team |-> rec.team,
     goals_scored |-> rec.goals_scored, goals_conceded |-> rec.goals_conceded,
     result |-> rec.result, location |-> rec.location, points |-> Points(rec)]

TeamStats(d) == Map(SortByDate(Map(d, HomeView) \o Map(d, AwayView)), WithPoints)

---------------------------------------------------------------------------
(* Section 3: rolling features (lines 7-17, 78) *)

\* a slip: closed='left' forgotten, the window i-n+1 .. i holds the current row
WindowClosedRight(g, i, n) == SubSeq(g, IF i - n + 1 < 1 THEN 1 ELSE i - n + 1, i)

\* rows i-n .. i-1 of a group: the window of rolling(window=n, closed='left')
Window(g, i, n) == SubSeq(g, IF i - n < 1 THEN 1 ELSE i - n, i - 1)

\* a slip: min_periods=1, the mean of however many observations the window holds
RollingMeanMinOne(vals, n) ==
    LET obs == SelectSeq(vals, LAMBDA v : v # NaN)
    IN  IF Len(obs) >= 1 THEN <<SumSeq(obs), Len(obs)>> ELSE NaNMean

\* mean() of a window of values with min_periods = n: NaN unless the window
\* holds n observations that are not NaN
RollingMean(vals, n) ==
    LET obs == SelectSeq(vals, LAMBDA v : v # NaN)
    IN  IF Len(obs) >= n THEN <<SumSeq(obs), Len(obs)>> ELSE NaNMean

calculate_rolling_features(group, n) ==
    LET g == SortByDate(group)
    IN  [i \in 1..Len(g) |->
            LET w == Window(g, i, n)
            IN  [idx |-> g[i].idx, date |-> g[i].date, team |-> g[i].team,
                 goals_scored |-> g[i].goals_scored,
                 goals_conceded |-> g[i].goals_conceded,
                 result |-> g[i].result, location |-> g[i].location,
                 points |-> g[i].points,
                 avg_goals_scored |-> RollingMean([j \in 1..Len(w) |-> w[j].goals_scored], n),
                 avg_goals_conceded |-> RollingMean([j \in 1..Len(w) |-> w[j].goals_conceded], n),
                 avg_points |-> RollingMean([j \in 1..Len(w) |-> w[j].points], n)]]

Group(ts, t) == SelectSeq(ts, LAMBDA r : r.team = t)

\* groupby('team', group_keys=False).apply(calculate_rolling_features)
GroupApply(ts, n) ==
    Concat([k \in 1..Len(TeamOrder) |-> calculate_rolling_features(Group(ts, TeamOrder[k]), n)])

---------------------------------------------------------------------------
(* Section 4: re-join and final filter (lines 82-92) *)

Features(p, loc) == SelectSeq(p, LAMBDA r : r.location = loc)

\* df.merge(home_features, left_on=['date','home_team'], right_on=['date','team'])
HomeMerge(d, hf) ==
    Concat([i \in 1..Len(d) |->
        LET hits == SelectSeq(hf, LAMBDA f : f.date = d[i].date /\ f.team = d[i].home_team)
        IN  [j \in 1..Len(hits) |->
                [idx |-> d[i].idx, date |-> d[i].date, home_team |-> d[i].home_team,
                 away_team |-> d[i].away_team, score |-> d[i].score,
                 attendance |-> d[i].attendance, home_goals |-> d[i].home_goals,
                 away_goals |-> d[i].away_goals, result |-> d[i].result,
                 home_avg_goals_scored |-> hits[j].avg_goals_scored,
                 home_avg_goals_conceded |-> hits[j].avg_goals_conceded,
                 home_avg_points |-> hits[j].avg_points]]])

\* final_df.merge(away_features, left_on=['date','away_team'], right_on=['date','team'])
AwayMerge(d, af) ==
    Concat([i \in 1..Len(d) |->
        LET hits == SelectSeq(af, LAMBDA f : f.date = d[i].date /\ f.team = d[i].away_team)
        IN  [j \in 1..Len(hits) |->
                [idx |-> d[i].idx, date |-> d[i].date, home_team |-> d[i].home_team,
                 away_team |-> d[i].away_team, score |-> d[i].score,
                 attendance |-> d[i].attendance, home_goals |-> d[i].home_goals,
                 away_goals |-> d[i].away_goals, result |-> d[i].result,
                 home_avg_goals_scored |-> d[i].home_avg_goals_scored,
                 home_avg_goals_conceded |-> d[i].home_avg_goals_conceded,
                 home_avg_points |-> d[i].home_avg_points,
                 away_avg_goals_scored |-> hits[j].avg_goals_scored,
                 away_avg_goals_conceded |-> hits[j].avg_goals_conceded,
                 away_avg_points |-> hits[j].avg_points]]])

\* a row dropna() keeps: no NaN in any of its columns
NoNaN(r) ==
    /\ r.score # <<>>
    /\ r.attendance # NaNText
    /\ r.home_goals # NaN /\ r.away_goals # NaN /\ r.result # NaNText
    /\ r.home_avg_goals_scored # NaNMean
    /\ r.home_avg_goals_conceded # NaNMean
    /\ r.home_avg_points # NaNMean
    /\ r.away_avg_goals_scored # NaNMean
    /\ r.away_avg_goals_conceded # NaNMean
    /\ r.away_avg_points # NaNMean

DropNa(rows) == SelectSeq(rows, NoNaN)

---------------------------------------------------------------------------
(* The run of process_data *)

\* section 1
Clean ==
    /\ pc = "start"
    /\ LET scored == NotNaScore(raw)
       IN  IF CleanRaises(scored)
           THEN /\ pc' = "aborted"
                /\ df' = df
           ELSE /\ pc' = "cleaned"
                /\ df' = CleanDf(raw)
    /\ UNCHANGED <<window_size, raw, team_stats_df, processed_df, merged_df, final_df>>

\* section 2
Expand ==
    /\ pc = "cleaned"
    /\ team_stats_df' = TeamStats(df)
    /\ pc' = "expanded"
    /\ UNCHANGED <<window_size, raw, df, processed_df, merged_df, final_df>>

\* section 3
Rolling ==
    /\ pc = "expanded"
    /\ processed_df' = GroupApply(team_stats_df, window_size)
    /\ pc' = "rolled"
    /\ UNCHANGED <<window_size, raw, df, team_stats_df, merged_df, final_df>>

\* section 4, the two merges
Merge ==
    /\ pc = "rolled"
    /\ merged_df' = AwayMerge(HomeMerge(df, Features(processed_df, "H")),
                              Features(processed_df, "A"))
    /\ pc' = "merged"
    /\ UNCHANGED <<window_size, raw, df, team_stats_df, processed_df, final_df>>

\* line 92 (dropna) and section 5 (to_csv)
Finish ==
    /\ pc = "merged"
    /\ final_df' = DropNa(merged_df)
    /\ pc' = "done"
    /\ UNCHANGED <<window_size, raw, df, team_stats_df, processed_df, merged_df>>

Next == Clean \/ Expand \/ Rolling \/ Merge \/ Finish

---------------------------------------------------------------------------
(* Input files *)

RawRow(i, d, h, a, s, att) ==
    [idx |-> i, date |-> d, home_team |-> h, away_team |-> a, score |-> s,
     attendance |-> att]

Fixtures == {<<"A", "B">>, <<"B", "A">>}

\* date columns of n rows in chronological or reverse chronological order,
\* the dates numbered from 1 without gaps; same-day rows allowed
DateColumns(n) ==
    {d \in [1..n -> 1..n] :
        \/ n = 0
        \/ d[1] = 1 /\ \A i \in 1..(n - 1) : d[i + 1] - d[i] \in {0, 1}
        \/ d[n] = 1 /\ \A i \in 1..(n - 1) : d[i] - d[i + 1] \in {0, 1}}

\* the same without same-day rows
StrictDateColumns(n) ==
    {d \in DateColumns(n) : \A i, j \in 1..n : i # j => d[i] # d[j]}

\* the files of n rows with one of the given date columns, whose fixtures,
\* scores and attendances are drawn from the given sets; row i has index
\* label i.  The two teams are interchangeable: the first row's home team is A.
Files(n, datecols, scores, atts) ==
    {[i \in 1..n |-> RawRow(i, d[i], f[i][1][1], f[i][1][2], f[i][2], f[i][3])] :
        d \in datecols,
        f \in {x \in [1..n -> Fixtures \X scores \X atts] : n > 0 => x[1][1][1] = "A"}}

\* scores of Spec: a home win, an away win, a text without separator
FormScores == {<<"1", Sep, "0">>, <<"0", Sep, "2">>, <<"1", "0", "2">>}

\* scores of SpecScore: blank, home win, draw, away win, no separator,
\* a token that is not a number
ScoreTexts ==
    {<<>>, <<"1", Sep, "0">>, <<"1", Sep, "1">>, <<"0", Sep, "2">>, <<"1">>,
     <<"x", Sep, "1">>}

StartWith(files, windows) ==
    /\ pc = "start"
    /\ raw \in files
    /\ window_size \in windows
    /\ df = <<>> /\ team_stats_df = <<>> /\ processed_df = <<>>
    /\ merged_df = <<>> /\ final_df = <<>>

\* rolling and re-join: up to MaxMatches rows, same-day rows included.
\* process_data itself passes no window_size (DefaultWindow applies, as under
\* SpecParse); the windows 1 and 2 are values of the parameter of
\* calculate_rolling_features that files of a few rows can fill.
Init ==
    StartWith(UNION {Files(n, DateColumns(n), FormScores, {"9"}) : n \in 0..MaxMatches},
              {1, 2})

\* scores, points and pass-through columns: up to MaxScoreRows rows
InitScore ==
    StartWith(UNION {Files(n, StrictDateColumns(n), ScoreTexts, {"9", NaNText}) :
                        n \in 1..MaxScoreRows},
              {1})

\* score parsing: one row, every text of up to MaxScoreLen characters
InitParse ==
    StartWith(Files(1, DateColumns(1), SeqsUpTo(Chars, MaxScoreLen), {"9"}),
              {DefaultWindow})

Spec == Init /\ [][Next]_vars
SpecScore == InitScore /\ [][Next]_vars
SpecParse == InitParse /\ [][Next]_vars

---------------------------------------------------------------------------
(* Vocabulary of the properties *)

AfterClean == pc \in {"cleaned", "expanded", "rolled", "merged", "done"}
AfterExpand == pc \in {"expanded", "rolled", "merged", "done"}
AfterRolling == pc \in {"rolled", "merged", "done"}
AfterMerge == pc \in {"merged", "done"}

Rows(frame) == {frame[i] : i \in 1..Len(frame)}

Fields == {"goals_scored", "goals_conceded", "points"}

\* the statistic of a team record, and its rolling mean, by field name
Stat(r, f) ==
    CASE f = "goals_scored" -> r.goals_scored
      [] f = "goals_conceded" -> r.goals_conceded
      [] f = "points" -> r.points

Avg(r, f) ==
    CASE f = "goals_scored" -> r.avg_goals_scored
      [] f = "goals_conceded" -> r.avg_goals_conceded
      [] f = "points" -> r.avg_points

Form(r) == <<r.avg_goals_scored, r.avg_goals_conceded, r.avg_points>>

\* the RollingForm of a record is absent when a field of it is NaN
Absent(r) == \E f \in Fields : Avg(r, f) = NaNMean

\* a team record is identified by the match it comes from and its side
Key(r) == <<r.idx, r.location>>

\* the records of team t in processed_df, in the order the rolling pass left them
Partition(t) == SelectSeq(processed_df, LAMBDA r : r.team = t)

Chronological(g) == \A i, j \in 1..Len(g) : i < j => g[i].date <= g[j].date

\* sum of Stat(g[j], f) for j in lo..hi
RECURSIVE StatSum(_, _, _, _)
StatSum(g, f, lo, hi) ==
    IF lo > hi THEN 0 ELSE Stat(g[lo], f) + StatSum(g, f, lo + 1, hi)

\* equality of two fractions <<numerator, denominator>>
SameMean(x, y) == x[2] # 0 /\ y[2] # 0 /\ x[1] * y[2] = y[1] * x[2]

---------------------------------------------------------------------------
(* C3 as stated: for every team record at chronological position k >= 2  *)
(* each RollingForm field is defined and equals the mean of the field over *)
(* positions max(1, k-N)..k-1, and only the record at k = 1 is undefined.  *)
C3_PartialWindow ==
    AfterRolling =>
        \A t \in Teams : \A k \in 1..Len(Partition(t)) : \A f \in Fields :
            LET g == Partition(t)
                lo == IF k - window_size < 1 THEN 1 ELSE k - window_size
            IN  IF k = 1 THEN Avg(g[k], f) = NaNMean
                ELSE SameMean(Avg(g[k], f), <<StatSum(g, f, lo, k - 1), k - lo>>)

(* C3 amended: each team partition is in date order, and the RollingForm   *)
(* field of the record at position k is defined exactly when k > N and the *)
(* N values of the field at positions k-N..k-1 are all numbers; it then    *)
(* equals their arithmetic mean.  Every record at a position k <= N has    *)
(* an undefined RollingForm, not only the record at k = 1.                 *)
C3_FullWindow ==
    AfterRolling =>
        \A t \in Teams :
            LET g == Partition(t)
                n == window_size
            IN  /\ Chronological(g)
                /\ \A k \in 1..Len(g) : \A f \in Fields :
                      IF k > n /\ \A j \in (k - n)..(k - 1) : Stat(g[j], f) # NaN
                      THEN Avg(g[k], f) = <<StatSum(g, f, k - n, k - 1), n>>
                      ELSE Avg(g[k], f) = NaNMean

\* window 2: a third record with its form defined over records 1 and 2, the
\* second record (one prior record) undefined
C3_Witness ==
    /\ pc = "rolled" /\ window_size = 2
    /\ \E t \in Teams :
          LET g == Partition(t)
          IN  /\ Len(g) >= 3
              /\ Absent(g[2])
              /\ ~Absent(g[3])
              /\ g[1].goals_scored # g[2].goals_scored

---------------------------------------------------------------------------
\* a statistic changed to another value (NaN to a number, a number raised)
Changed(v) == IF v = NaN THEN 0 ELSE v + 1

\* team_stats_df with the goals and the points of its r-th record changed
Perturb(ts, r) ==
    [ts EXCEPT ![r] =
        [idx |-> @.idx, date |-> @.date, team |-> @.team,
         goals_scored |-> Changed(@.goals_scored),
         goals_conceded |-> Changed(@.goals_conceded),
         result |-> @.result, location |-> @.location,
         points |-> Changed(@.points)]]

(* C1: look-back only.  Changing the goals and points of one team record   *)
(* and running the rolling pass again leaves every team's partition in the *)
(* same order and leaves the RollingForm of the record at position k       *)
(* unchanged unless the changed record is one of that team's records at    *)
(* positions 1..k-1: record k itself, a later record of the team and a     *)
(* record of another team have no influence.                               *)
C1_LookBack ==
    pc = "rolled" =>
        \A r \in 1..Len(team_stats_df) :
            \A again \in {GroupApply(Perturb(team_stats_df, r), window_size)} :
                \A t \in Teams :
                    \A g \in {Partition(t)} :
                        \A h \in {SelectSeq(again, LAMBDA x : x.team = t)} :
                            /\ Len(h) = Len(g)
                            /\ \A k \in 1..Len(g) :
                                  /\ Key(h[k]) = Key(g[k])
                                  /\ Key(team_stats_df[r]) \notin {Key(g[j]) : j \in 1..(k - 1)}
                                        => Form(h[k]) = Form(g[k])

\* window 1, a team with three records: the second has a defined form and a
\* later record of the team exists
C1_Witness ==
    /\ pc = "rolled" /\ window_size = 1
    /\ \E t \in Teams :
          /\ Len(Partition(t)) = 3
          /\ ~Absent(Partition(t)[2])
          /\ ~Absent(Partition(t)[3])

---------------------------------------------------------------------------
\* the team record of scored match m on the given side
OwnRecords(m, loc) == {r \in Rows(processed_df) : r.idx = m.idx /\ r.location = loc}

(* C2: cold-start exclusion.  A team record with fewer than N prior        *)
(* records of its team has an absent RollingForm, and a match whose home   *)
(* or away record has an absent RollingForm does not appear in the final   *)
(* output.                                                                 *)
C2_ColdStart ==
    /\ AfterRolling =>
          \A t \in Teams : \A k \in 1..Len(Partition(t)) :
              k - 1 < window_size => \A f \in Fields : Avg(Partition(t)[k], f) = NaNMean
    /\ pc = "done" =>
          \A m \in Rows(df) :
              (\E r \in OwnRecords(m, "H") \cup OwnRecords(m, "A") : Absent(r))
                  => \A o \in Rows(final_df) : o.idx # m.idx

(* C9: re-join uniqueness.  Each match's (date, home_team) key and         *)
(* (date, away_team) key match exactly one team record of that side, so    *)
(* the merges give at most one row per match, carrying the RollingForm of  *)
(* the match's own home and away records.                                  *)
C9_JoinUnique ==
    AfterMerge =>
        \A m \in Rows(df) :
            /\ Cardinality({r \in Rows(processed_df) :
                    r.location = "H" /\ r.date = m.date /\ r.team = m.home_team}) = 1
            /\ Cardinality({r \in Rows(processed_df) :
                    r.location = "A" /\ r.date = m.date /\ r.team = m.away_team}) = 1
            /\ Cardinality({i \in 1..Len(merged_df) : merged_df[i].idx = m.idx}) <= 1
            /\ \A o \in Rows(merged_df) :
                  o.idx = m.idx =>
                      /\ \A r \in OwnRecords(m, "H") :
                            Form(r) = <<o.home_avg_goals_scored, o.home_avg_goals_conceded,
                                        o.home_avg_points>>
                      /\ \A r \in OwnRecords(m, "A") :
                            Form(r) = <<o.away_avg_goals_scored, o.away_avg_goals_conceded,
                                        o.away_avg_points>>

---------------------------------------------------------------------------
\* a scored match: both goal counts of the row are numbers
Scored(m) == m.home_goals # NaN /\ m.away_goals # NaN

\* the sum of the points of the team records derived from match m
MatchPoints(m) ==
    LET recs == SelectSeq(team_stats_df, LAMBDA r : r.idx = m.idx)
    IN  SumSeq([i \in 1..Len(recs) |-> recs[i].points])

(* C6 as stated, a scored match being a row with both goal counts numbers: *)
(* for every scored match the points of its two team records sum to        *)
(* exactly 2, for a decisive result as well as for a draw.                 *)
C6_SumIsTwo ==
    AfterExpand => \A m \in Rows(df) : Scored(m) => MatchPoints(m) = 2

(* C6 amended: for every row of df the points of its two team records sum  *)
(* to 3 when the result is decisive (3 + 0) and to 2 when it is a draw     *)
(* (1 + 1); a row that its score text left without two goal counts, and    *)
(* so without a result, sums to 0.                                         *)
C6_SumByResult ==
    AfterExpand =>
        \A m \in Rows(df) :
            MatchPoints(m) = IF ~Scored(m) THEN 0
                             ELSE IF m.home_goals = m.away_goals THEN 2 ELSE 3

\* a home win, an away win or a draw among the scored matches of a two-row file
C6_Witness ==
    /\ pc = "expanded" /\ Len(df) = 2
    /\ \E m \in Rows(df) : Scored(m) /\ m.home_goals < m.away_goals
    /\ \E m \in Rows(df) : Scored(m) /\ m.home_goals = m.away_goals

---------------------------------------------------------------------------
---------------------------------------------------------------------------
(* C5: every team record gets 3 points if (location = Home and result =    *)
(* HomeWin) or (location = Away and result = AwayWin), 1 if result = Draw, *)
(* 0 otherwise; consequently points = 3 iff goals_scored > goals_conceded, *)
(* 1 iff they are equal, 0 iff goals_scored < goals_conceded.              *)
C5_PointsRule ==
    AfterExpand =>
        \A r \in Rows(team_stats_df) :
            /\ r.points = IF \/ r.location = "H" /\ r.result = "H"
                             \/ r.location = "A" /\ r.result = "A" THEN 3
                          ELSE IF r.result = "D" THEN 1 ELSE 0
            /\ r.points = 3 <=> Gt(r.goals_scored, r.goals_conceded)
            /\ r.points = 1 <=> Eq(r.goals_scored, r.goals_conceded)
            /\ r.points = 0 <=> Lt(r.goals_scored, r.goals_conceded)

---------------------------------------------------------------------------
\* a score text that is not two non-empty digit strings around one separator
Malformed(score) ==
    LET toks == Split(score)
    IN  score # <<>> /\ ~(/\ Len(toks) = 2
                          /\ \A j \in 1..2 : toks[j] # <<>> /\ Numeric(toks[j]))

(* C8: a record whose score text does not split into exactly two numeric   *)
(* tokens is excluded like an unplayed fixture: it yields no team record   *)
(* (so it is in no rolling window), and the run does not abort.            *)
C8_MalformedExcluded ==
    /\ (\E m \in Rows(raw) : Malformed(m.score)) => pc # "aborted"
    /\ AfterExpand => \A r \in Rows(team_stats_df) : ~Malformed(raw[r.idx].score)

---------------------------------------------------------------------------
(* C10: a scored match is in the final output if and only if both its home *)
(* and its away RollingForm are present; a blank pass-through column       *)
(* (attendance) never causes a row to be dropped.                          *)
C10_FinalFilter ==
    pc = "done" =>
        \A m \in Rows(df) :
            Scored(m) =>
                ((\E o \in Rows(final_df) : o.idx = m.idx)
                    <=> \A r \in OwnRecords(m, "H") \cup OwnRecords(m, "A") : ~Absent(r))

---------------------------------------------------------------------------
DigitChar(d) == CASE d = 0 -> "0" [] d = 1 -> "1" [] d = 2 -> "2" [] OTHER -> "?"

\* the decimal text of a non-negative integer
RECURSIVE Render(_)
Render(n) == IF n < 10 THEN <<DigitChar(n)>> ELSE Append(Render(n \div 10), DigitChar(n % 10))

\* the goal counts a text of up to MaxScoreLen characters can spell
RECURSIVE Pow10(_)
Pow10(k) == IF k = 0 THEN 1 ELSE 10 * Pow10(k - 1)

GoalCounts == 0..(Pow10(MaxScoreLen - 2) - 1)

(* C4: for every row whose score text is "a-b" for non-negative integers   *)
(* a and b, home_goals = a, away_goals = b and the row has exactly one     *)
(* result: H iff a > b, A iff a < b, D iff a = b.                          *)
C4_ResultBySign ==
    AfterClean =>
        \A m \in Rows(df) : \A a, b \in GoalCounts :
            m.score = Render(a) \o <<Sep>> \o Render(b) =>
                /\ m.home_goals = a /\ m.away_goals = b
                /\ m.result \in {"H", "D", "A"}
                /\ m.result = "H" <=> a > b
                /\ m.result = "A" <=> a < b
                /\ m.result = "D" <=> a = b

\* a draw read from the text "2-2"
C4_Witness ==
    /\ pc = "cleaned"
    /\ \E m \in Rows(df) : m.score = <<"2", Sep, "2">> /\ m.result = "D"

====
